---------------------------- MODULE Spec2Model ----------------------------
(***************************************************************************)
(* A model of the monorepo-git-tag extension: the version-resolution and   *)
(* tag-mutation functions of src/src/utils/gitUtils.ts, the prompts of     *)
(* src/src/utils/uiUtils.ts and the command handler of src/src/extension.ts *)
(* (plus the older createAndPushTag of src/unnamed/part_000).               *)
(*                                                                         *)
(* Text is modelled as sequences of one-character strings, so that the     *)
(* regular expressions, String.split, Number() and Array.join of the       *)
(* source are computed rather than assumed.                                *)
(***************************************************************************)
EXTENDS Integers, Sequences, FiniteSets, TLC

VARIABLES
    hasGitDir,       \* fs.existsSync(path.join(workspaceRoot, '.git'))
    insideWorkTree,  \* git commands succeed in workspaceRoot
    localTags,       \* the tag objects of the local repository
    remoteTags,      \* the tag objects of the remote "origin"
    call,            \* the programmatic call in progress / last returned
    prev,            \* a summary of the call that returned before it
    runs             \* the runs of the monorepo-git-tag.createTag command

vars == <<hasGitDir, insideWorkTree, localTags, remoteTags, call, prev, runs>>

---------------------------------------------------------------------------
(* Characters and text                                                     *)

Digits == {"0", "1", "2", "3", "4", "5", "6", "7", "8", "9"}

\* The characters namespaces of the model are written in.  '*', '?', '[' are
\* left out: git refuses them in a ref name, so no tag of such a namespace
\* can exist.
NsChars == {"a", "b", "x", "-", ".", "+", "("}

DigitVal(c) ==
    CASE c = "0" -> 0 [] c = "1" -> 1 [] c = "2" -> 2 [] c = "3" -> 3
      [] c = "4" -> 4 [] c = "5" -> 5 [] c = "6" -> 6 [] c = "7" -> 7
      [] c = "8" -> 8 [] c = "9" -> 9 [] c = "a" -> 10 [] c = "b" -> 11

DigitChar(n) ==
    CASE n = 0 -> "0" [] n = 1 -> "1" [] n = 2 -> "2" [] n = 3 -> "3"
      [] n = 4 -> "4" [] n = 5 -> "5" [] n = 6 -> "6" [] n = 7 -> "7"
      [] n = 8 -> "8" [] n = 9 -> "9"

\* The byte value of a character (git lists refs in byte order of the name).
CharCode(c) ==
    CASE c = "\n" -> 10 [] c = " " -> 32 [] c = "(" -> 40 [] c = "+" -> 43
      [] c = "-" -> 45 [] c = "." -> 46 [] c = "/" -> 47
      [] c \in Digits -> 48 + DigitVal(c)
      [] c = "@" -> 64 [] c = "N" -> 78 [] c = "^" -> 94
      [] c = "a" -> 97 [] c = "b" -> 98 [] c = "x" -> 120
      [] c = "{" -> 123 [] c = "}" -> 125

IsWhite(c) == c \in {" ", "\n"}

\* String.prototype.trim
RECURSIVE TrimLeft(_)
TrimLeft(s) ==
    IF s # <<>> /\ IsWhite(Head(s)) THEN TrimLeft(Tail(s)) ELSE s

RECURSIVE TrimRight(_)
TrimRight(s) ==
    IF s # <<>> /\ IsWhite(s[Len(s)])
    THEN TrimRight(SubSeq(s, 1, Len(s) - 1)) ELSE s

Trim(s) == TrimRight(TrimLeft(s))

\* String.prototype.split(sep) for a one-character separator: the pieces
\* between the separators, empty pieces kept ("".split(".") is [""]).
RECURSIVE SplitFrom(_, _, _)
SplitFrom(s, sep, cur) ==
    IF s = <<>> THEN <<cur>>
    ELSE IF Head(s) = sep THEN <<cur>> \o SplitFrom(Tail(s), sep, <<>>)
    ELSE SplitFrom(Tail(s), sep, Append(cur, Head(s)))

Split(s, sep) == SplitFrom(s, sep, <<>>)

\* Array.prototype.join(sep) on an array of strings
RECURSIVE Join(_, _)
Join(parts, sep) ==
    IF parts = <<>> THEN <<>>
    ELSE IF Len(parts) = 1 THEN parts[1]
    ELSE parts[1] \o <<sep>> \o Join(Tail(parts), sep)

---------------------------------------------------------------------------
(* JavaScript numbers: a value is [nan |-> BOOLEAN, n |-> Int]              *)

NaN == [nan |-> TRUE, n |-> 0]
Num(k) == [nan |-> FALSE, n |-> k]

RECURSIVE RadixValue(_, _, _)
RadixValue(s, radix, acc) ==
    IF s = <<>> THEN acc
    ELSE RadixValue(Tail(s), radix, acc * radix + DigitVal(Head(s)))

AllIn(s, S) == \A i \in 1..Len(s) : s[i] \in S

\* Number(text): StringToNumber of ECMAScript over the characters of the
\* model.  White space is trimmed, the empty string is 0, a decimal literal
\* may carry a sign, 0x and 0b literals may not, anything else is NaN.
Number(text) ==
    LET s == Trim(text) IN
    IF s = <<>> THEN Num(0)
    ELSE IF AllIn(s, Digits) THEN Num(RadixValue(s, 10, 0))
    ELSE IF Len(s) >= 2 /\ s[1] \in {"+", "-"} /\ AllIn(Tail(s), Digits)
         THEN Num((IF s[1] = "-" THEN -1 ELSE 1) * RadixValue(Tail(s), 10, 0))
    ELSE IF Len(s) >= 3 /\ s[1] = "0" /\ s[2] = "b"
            /\ AllIn(SubSeq(s, 3, Len(s)), {"0", "1"})
         THEN Num(RadixValue(SubSeq(s, 3, Len(s)), 2, 0))
    ELSE IF Len(s) >= 3 /\ s[1] = "0" /\ s[2] = "x"
            /\ AllIn(SubSeq(s, 3, Len(s)), Digits \cup {"a", "b"})
         THEN Num(RadixValue(SubSeq(s, 3, Len(s)), 16, 0))
    ELSE NaN

RECURSIVE NatToString(_)
NatToString(n) ==
    IF n < 10 THEN <<DigitChar(n)>>
    ELSE Append(NatToString(n \div 10), DigitChar(n % 10))

\* Number.prototype.toString, as Array.join applies it to each element
NumberToString(v) ==
    IF v.nan THEN <<"N", "a", "N">>
    ELSE IF v.n < 0 THEN <<"-">> \o NatToString(-v.n)
    ELSE NatToString(v.n)

\* x + 1 on a JavaScript number
PlusOne(v) == IF v.nan THEN NaN ELSE Num(v.n + 1)

\* Array.prototype.map over a sequence
MapSeq(Op(_), s) == [i \in 1..Len(s) |-> Op(s[i])]

---------------------------------------------------------------------------
(* incrementVersion                                                        *)

Returned(v) == [kind |-> "return", value |-> v]
Thrown == [kind |-> "throw", value |-> <<>>]

IncrementTypes == {"major", "minor", "patch"}

\* A plausible slip: the minor step forgets to reset the patch component.
incrementVersionNoReset(version, type) ==
    LET parts == MapSeq(Number, Split(version, "."))
    IN  IF Len(parts) # 3 THEN Thrown
        ELSE LET next ==
                   CASE type = "major" -> <<PlusOne(parts[1]), Num(0), Num(0)>>
                     [] type = "minor" -> <<parts[1], PlusOne(parts[2]), parts[3]>>
                     [] type \in {"patch", "undefined"} ->
                            <<parts[1], parts[2], PlusOne(parts[3])>>
             IN  Returned(Join(MapSeq(NumberToString, next), "."))

\* type "undefined" is the omitted argument, which defaults to 'patch'
incrementVersion(version, type) ==
    LET parts == MapSeq(Number, Split(version, "."))
    IN  IF Len(parts) # 3 THEN Thrown
        ELSE LET next ==
                   CASE type = "major" -> <<PlusOne(parts[1]), Num(0), Num(0)>>
                     [] type = "minor" -> <<parts[1], PlusOne(parts[2]), Num(0)>>
                     [] type \in {"patch", "undefined"} ->
                            <<parts[1], parts[2], PlusOne(parts[3])>>
             IN  Returned(Join(MapSeq(NumberToString, next), "."))

---------------------------------------------------------------------------
(* Regular expressions, as new RegExp(...) compiles and runs them          *)

\* One element of a compiled pattern: a literal character, '.', or \d,
\* possibly under the '+' quantifier.
Lit(c) == [k |-> "lit", c |-> c, plus |-> FALSE]
AnyChar == [k |-> "any", c |-> ".", plus |-> FALSE]
DigitPlus == [k |-> "digit", c |-> "0", plus |-> TRUE]

\* The pattern text of a namespace interpolated into a regular expression,
\* read the way the RegExp constructor reads it: '.' is any character, '+'
\* repeats the element before it (a second '+' in a row is "nothing to
\* repeat"), '(' opens a group that is never closed.  These two are the
\* SyntaxError cases.  acc starts as the elements already compiled.
RECURSIVE CompilePattern(_, _)
CompilePattern(text, acc) ==
    IF ~acc.ok \/ text = <<>> THEN acc
    ELSE LET c == Head(text)
             last == acc.atoms[Len(acc.atoms)]
         IN  CASE c = "(" -> [ok |-> FALSE, atoms |-> acc.atoms]
               [] c = "+" ->
                    IF last.plus THEN [ok |-> FALSE, atoms |-> acc.atoms]
                    ELSE CompilePattern(Tail(text),
                           [ok |-> TRUE,
                            atoms |-> [acc.atoms EXCEPT ![Len(acc.atoms)].plus = TRUE]])
               [] c = "." ->
                    CompilePattern(Tail(text),
                        [ok |-> TRUE, atoms |-> Append(acc.atoms, AnyChar)])
               [] OTHER ->
                    CompilePattern(Tail(text),
                        [ok |-> TRUE, atoms |-> Append(acc.atoms, Lit(c))])

AtomAccepts(a, ch) ==
    CASE a.k = "lit" -> ch = a.c
      [] a.k = "any" -> ch # "\n"
      [] a.k = "digit" -> ch \in Digits

\* How many characters of s from position j on the element a accepts in a row
RECURSIVE RunLength(_, _, _)
RunLength(a, s, j) ==
    IF j <= Len(s) /\ AtomAccepts(a, s[j]) THEN 1 + RunLength(a, s, j + 1) ELSE 0

\* The backtracking matcher: the position after the first match, in the
\* engine's order of preference (a quantifier takes as much as it can first),
\* of atoms[i..] at position j of s; 0 when there is none.  anchored is the
\* trailing '$'.
RECURSIVE MatchAt(_, _, _, _, _)
RECURSIVE MatchPlus(_, _, _, _, _, _)
MatchAt(atoms, i, s, j, anchored) ==
    IF i > Len(atoms)
    THEN (IF anchored /\ j # Len(s) + 1 THEN 0 ELSE j)
    ELSE IF atoms[i].plus
         THEN MatchPlus(atoms, i, s, j, RunLength(atoms[i], s, j), anchored)
         ELSE IF j <= Len(s) /\ AtomAccepts(atoms[i], s[j])
              THEN MatchAt(atoms, i + 1, s, j + 1, anchored)
              ELSE 0

MatchPlus(atoms, i, s, j, k, anchored) ==
    IF k < 1 THEN 0
    ELSE LET r == MatchAt(atoms, i + 1, s, j + k, anchored)
         IN  IF r # 0 THEN r ELSE MatchPlus(atoms, i, s, j, k - 1, anchored)

\* An unanchored search: the leftmost start that matches
RECURSIVE SearchFrom(_, _, _)
SearchFrom(atoms, s, start) ==
    IF start > Len(s) + 1 THEN 0
    ELSE LET r == MatchAt(atoms, 1, s, start, FALSE)
         IN  IF r # 0 THEN r ELSE SearchFrom(atoms, s, start + 1)

\* new RegExp(`^@${appName}/\\d+\\.\\d+\\.\\d+$`)
VersionRegExp(appName) ==
    LET head == CompilePattern(appName, [ok |-> TRUE, atoms |-> <<Lit("@")>>])
    IN  [ok |-> head.ok,
         atoms |-> head.atoms \o
                   <<Lit("/"), DigitPlus, Lit("."), DigitPlus, Lit("."), DigitPlus>>]

\* isValidVersion(version, appName): "throw" is the SyntaxError of the
\* RegExp constructor, otherwise the result of test().
isValidVersion(version, appName) ==
    LET re == VersionRegExp(appName)
    IN  IF ~re.ok THEN "throw"
        ELSE IF MatchAt(re.atoms, 1, version, 1, TRUE) # 0 THEN "true"
        ELSE "false"

\* tag.match(new RegExp(`@${appName}/(.*)`)): the first group of the
\* leftmost match, <<"null">> when there is none.  (.*) runs to the end of
\* the text, so the group is what follows the match of `@${appName}/`.
ExtractVersion(tag, appName) ==
    LET head == CompilePattern(appName, [ok |-> TRUE, atoms |-> <<Lit("@")>>])
        end == SearchFrom(Append(head.atoms, Lit("/")), tag, 1)
    IN  IF end = 0 THEN <<"null">> ELSE SubSeq(tag, end, Len(tag))

---------------------------------------------------------------------------
(* What the git commands print                                             *)

RECURSIVE LexLess(_, _)
LexLess(a, b) ==
    IF b = <<>> THEN FALSE
    ELSE IF a = <<>> THEN TRUE
    ELSE IF Head(a) # Head(b) THEN CharCode(Head(a)) < CharCode(Head(b))
    ELSE LexLess(Tail(a), Tail(b))

RECURSIVE SortedNames(_)
SortedNames(S) ==
    IF S = {} THEN <<>>
    ELSE LET m == CHOOSE x \in S : \A y \in S : x = y \/ LexLess(x, y)
         IN  <<m>> \o SortedNames(S \ {m})

HasPrefix(s, p) == Len(s) >= Len(p) /\ SubSeq(s, 1, Len(p)) = p

Contains(s, p) ==
    \E i \in 1..(Len(s) + 1) : HasPrefix(SubSeq(s, i, Len(s)), p)

TagNames(tags) == {t.name : t \in tags}

\* Lines as a command writes them: each followed by a newline
RECURSIVE Lines(_)
Lines(names) ==
    IF names = <<>> THEN <<>> ELSE Head(names) \o <<"\n">> \o Lines(Tail(names))

\* `git tag --list` without the pattern: every local tag.
GitTagListAll(tags, appName) == Lines(SortedNames(TagNames(tags)))

\* stdout of `git tag --list "@${appName}/*"`: the local tag names the glob
\* matches, in byte order.  With no glob character in appName the glob is
\* the literal prefix "@<appName>/".
GitTagList(tags, appName) ==
    Lines(SortedNames({n \in TagNames(tags) :
                          HasPrefix(n, <<"@">> \o appName \o <<"/">>)}))

\* Each annotated tag is advertised twice, the second time peeled
RECURSIVE WithPeeled(_)
WithPeeled(names) ==
    IF names = <<>> THEN <<>>
    ELSE <<Head(names), Head(names) \o <<"^", "{", "}">>>> \o WithPeeled(Tail(names))

\* stdout of `git ls-remote --tags origin --list "@${appName}/*" | awk
\* '{print $2}' | sed 's|refs/tags/||'`.  ls-remote stops reading options at
\* "origin", so "--list" and "@<appName>/*" are both patterns, each matched
\* as "*/<pattern>" against "/refs/tags/<name>"; only the second can match a
\* tag of the model.  awk keeps the ref name, sed strips "refs/tags/".
GitLsRemoteTags(tags, appName) ==
    Lines(WithPeeled(SortedNames({n \in TagNames(tags) :
              Contains(<<"/">> \o n, <<"/", "@">> \o appName \o <<"/">>)})))

---------------------------------------------------------------------------
(* getLatestTagVersion                                                     *)

ZeroVersion == <<"0", ".", "0", ".", "0">>

\* The result of a call: what it returned or that it threw, whether
\* showErrorMessage was called, and the git commands it ran.
Outcome(kind, value, reported, cmds) ==
    [kind |-> kind, value |-> value, reported |-> reported, cmds |-> cmds]

\* The result of execAsync
Resolved(stdout) == [rejected |-> FALSE, stdout |-> stdout]
Rejected == [rejected |-> TRUE, stdout |-> <<>>]

\* Array.prototype.filter
Filter(s, Keep(_)) == SelectSeq(s, Keep)

\* Array.from(new Set(array)): the first occurrence of each element, in order
RECURSIVE Dedup(_, _)
Dedup(s, seen) ==
    IF s = <<>> THEN <<>>
    ELSE IF Head(s) \in seen THEN Dedup(Tail(s), seen)
    ELSE <<Head(s)>> \o Dedup(Tail(s), seen \cup {Head(s)})

\* The comparator of versions.sort: negative when a goes before b
Minus(x, y) == IF x.nan \/ y.nan THEN 0 ELSE x.n - y.n

CompareVersions(a, b) ==
    LET aParts == MapSeq(Number, Split(a, "."))
        bParts == MapSeq(Number, Split(b, "."))
    IN  IF aParts[1] # bParts[1] THEN Minus(bParts[1], aParts[1])
        ELSE IF aParts[2] # bParts[2] THEN Minus(bParts[2], aParts[2])
        ELSE Minus(bParts[3], aParts[3])

\* Array.prototype.sort(compare): stable
RECURSIVE InsertSorted(_, _)
InsertSorted(x, sorted) ==
    IF sorted = <<>> THEN <<x>>
    ELSE IF CompareVersions(x, Head(sorted)) < 0 THEN <<x>> \o sorted
    ELSE <<Head(sorted)>> \o InsertSorted(x, Tail(sorted))

RECURSIVE SortVersions(_, _)
SortVersions(s, sorted) ==
    IF s = <<>> THEN sorted
    ELSE SortVersions(Tail(s), InsertSorted(Head(s), sorted))

\* The body of the try block, after the two tag enumerations returned
LatestOf(localStdout, remoteStdout, appName) ==
    LET candidates == Split(Trim(localStdout), "\n") \o Split(Trim(remoteStdout), "\n")
        Valid(tag) == isValidVersion(tag, appName) = "true"
        NonBlank(tag) == Trim(tag) # <<>>
        NotNull(v) == v # <<"null">>
        Extract(tag) == ExtractVersion(tag, appName)
    IN  IF isValidVersion(candidates[1], appName) = "throw" THEN Thrown
        ELSE LET allTags == Dedup(Filter(candidates, Valid), {})
             IN  IF allTags = <<>> THEN Returned(ZeroVersion)
                 ELSE LET versions ==
                            Filter(MapSeq(Extract, Filter(allTags, NonBlank)), NotNull)
                      IN  IF versions = <<>> THEN Returned(ZeroVersion)
                          ELSE Returned(SortVersions(versions, <<>>)[1])

\* The names the model logs the git commands under
ListLocal == "git tag --list"
ListRemote == "git ls-remote"

\* The try block of getLatestTagVersion.  isGitRepo is what isGitRepository
\* returned, local and remote are the results of the two execAsync calls (a
\* call that is never made is not looked at).
getLatestTagVersionTry(appName, isGitRepo, local, remote) ==
    IF ~isGitRepo THEN Outcome("return", ZeroVersion, TRUE, <<>>)
    ELSE IF local.rejected THEN Outcome("throw", <<>>, FALSE, <<ListLocal>>)
    ELSE IF remote.rejected
         THEN Outcome("throw", <<>>, FALSE, <<ListLocal, ListRemote>>)
    ELSE LET r == LatestOf(local.stdout, remote.stdout, appName)
         IN  Outcome(r.kind, r.value, FALSE, <<ListLocal, ListRemote>>)

\* The function without its catch clause.
getLatestTagVersionNoCatch(appName, isGitRepo, local, remote) ==
    getLatestTagVersionTry(appName, isGitRepo, local, remote)

\* getLatestTagVersion: the try block, and the catch clause that turns
\* anything thrown into '0.0.0'
getLatestTagVersion(appName, isGitRepo, local, remote) ==
    LET t == getLatestTagVersionTry(appName, isGitRepo, local, remote)
    IN  IF t.kind = "throw" THEN Outcome("return", ZeroVersion, t.reported, t.cmds)
        ELSE t

---------------------------------------------------------------------------
(* The values the model draws its inputs from                              *)

\* Largest version component of the texts incrementVersion is applied to
MaxComponent == 10

\* Most tags the local and the remote repository hold together at the start
MaxTags == 3

Dotted(a, b, c) == a \o <<".">> \o b \o <<".">> \o c

TagName(appName, version) == <<"@">> \o appName \o <<"/">> \o version

\* Namespaces: a plain one, one it is a proper prefix of, and ones with
\* characters that mean something in a regular expression
NsAb == <<"a", "b">>
NsAbX == <<"a", "b", "-", "x">>
NsDot == <<"a", ".", "b">>
NsPlus == <<"a", "+", "b">>
NsAny == <<".", "+">>
NsAnyX == <<".", "+", "x">>
NsParen == <<"a", "(", "b">>

AppNames == {NsAb, NsAbX, NsDot, NsPlus, NsAny, NsParen}

V100 == Dotted(<<"1">>, <<"0">>, <<"0">>)
V190 == Dotted(<<"1">>, <<"9">>, <<"0">>)
V1100 == Dotted(<<"1">>, <<"1", "0">>, <<"0">>)
V200 == Dotted(<<"2">>, <<"0">>, <<"0">>)
\* 1.10.0 written with a leading zero
V01100 == Dotted(<<"0", "1">>, <<"1", "0">>, <<"0">>)

\* Version texts that are not triples
TwoParts == <<"1", ".", "2">>
NotAVersion == <<"x">>

\* The tag names a repository of the model may hold at the start
TagNameUniverse ==
    { TagName(NsAb, V190), TagName(NsAb, V1100), TagName(NsAb, V200),
      TagName(NsAb, V01100),
      TagName(NsAb, TwoParts), TagName(NsAb, NotAVersion),
      TagName(NsAbX, V200),
      TagName(NsDot, V100), TagName(NsPlus, V100),
      TagName(NsAny, V100), TagName(NsAnyX, V200) }

Commits == {"c1", "c2"}
Messages == {"m1", "m2"}

TagObject(name, commit, message) ==
    [name |-> name, commit |-> commit, message |-> message]

InitialTags(names) == {TagObject(n, "c1", "m1") : n \in names}

\* The texts incrementVersion is called with: every triple with components
\* up to MaxComponent, one with a leading zero, and texts that are no triple
VersionInputs ==
    { Dotted(NatToString(a), NatToString(b), NatToString(c)) :
        a \in 0..MaxComponent, b \in 0..MaxComponent, c \in 0..MaxComponent }
    \cup { Dotted(<<"0", "1">>, <<"0">>, <<"0", "9">>) }
    \cup { <<>>, TwoParts, NotAVersion, V100 \o <<".", "4">>,
           Dotted(<<"x">>, <<"0">>, <<"0">>), Dotted(<<>>, <<"0">>, <<"0">>),
           Dotted(<<"-", "1">>, <<"0">>, <<"0">>),
           Dotted(<<"+", "1">>, <<"0">>, <<"0">>),
           Dotted(<<"0", "x", "1", "a">>, <<"0">>, <<"0">>),
           Dotted(<<" ", "1">>, <<"0">>, <<"0">>) }

---------------------------------------------------------------------------
(* State                                                                   *)

Runs == {"r1", "r2"}

NoCall == [op |-> "none", pc |-> "idle", args |-> <<>>, out |-> <<>>]
NoSummary == [op |-> "none", name |-> <<>>, created |-> FALSE, pushed |-> FALSE]

\* A run of the command handler: where it is, what the prompts returned so
\* far, and what it did.  answered holds the prompts that returned a value,
\* cancelledAt the prompt that returned undefined, cmds the create and push
\* calls the run made, atStart the tags of the two repositories when the
\* run started.
RunAt(pc) ==
    [pc |-> pc, app |-> <<>>, localOut |-> <<>>, latest |-> <<>>,
     incType |-> "none", newVersion |-> <<>>, commitId |-> "none",
     message |-> "none", autoPush |-> FALSE, shouldPush |-> "undefined",
     answered |-> {}, cancelledAt |-> "none", cmds |-> <<>>,
     created |-> "none", pushed |-> "none", error |-> "none",
     atStart |-> [local |-> {}, remote |-> {}]]

IdleRun == RunAt("idle")
\* A run that is never started
OffRun == RunAt("off")

\* isGitRepository: the .git entry exists, or `git rev-parse
\* --is-inside-work-tree` succeeds; a failure of the command is caught and
\* reported as false
isGitRepository == hasGitDir \/ insideWorkTree

---------------------------------------------------------------------------
(* SpecIncrement: incrementVersion applied to the version inputs           *)

InitIncrement ==
    /\ hasGitDir = TRUE
    /\ insideWorkTree = TRUE
    /\ localTags = {}
    /\ remoteTags = {}
    /\ call = NoCall
    /\ prev = NoSummary
    /\ runs = [r \in Runs |-> IdleRun]

CallIncrementVersion ==
    /\ call = NoCall
    /\ \E version \in VersionInputs, type \in IncrementTypes \cup {"undefined"} :
          call' = [op |-> "incrementVersion", pc |-> "done",
                   args |-> [version |-> version, type |-> type],
                   out |-> incrementVersion(version, type)]
    /\ UNCHANGED <<hasGitDir, insideWorkTree, localTags, remoteTags, prev, runs>>

NextIncrement == CallIncrementVersion

SpecIncrement == InitIncrement /\ [][NextIncrement]_vars

---------------------------------------------------------------------------
(* SpecResolve: getLatestTagVersion applied to repositories                *)

\* A directory outside any work tree has no repository, hence no tags
InitResolve ==
    /\ hasGitDir \in BOOLEAN
    /\ insideWorkTree \in BOOLEAN
    /\ \E l \in SUBSET TagNameUniverse :
          /\ Cardinality(l) <= MaxTags
          /\ ~insideWorkTree => l = {}
          /\ localTags = InitialTags(l)
          /\ \E r \in SUBSET TagNameUniverse :
                /\ Cardinality(l) + Cardinality(r) <= MaxTags
                /\ ~insideWorkTree => r = {}
                /\ remoteTags = InitialTags(r)
    /\ call = NoCall
    /\ prev = NoSummary
    /\ runs = [r \in Runs |-> IdleRun]

\* What execAsync of the local enumeration gives: its output, or a rejection
\* (git fails outside a work tree; the process may fail anywhere)
LocalExec(mode, appName, tags) ==
    IF mode = "ok" THEN Resolved(GitTagList(tags, appName)) ELSE Rejected

\* What execAsync of the remote pipeline gives.  The exit status of a shell
\* pipeline is that of its last command, so when git ls-remote itself fails
\* ("gitfail": no remote, no network) sed still exits 0 and the promise
\* resolves with empty output; it rejects ("reject") only when the pipeline
\* as a whole fails: no shell, no awk or sed, output over maxBuffer.
RemoteExec(mode, appName, tags) ==
    CASE mode = "ok" -> Resolved(GitLsRemoteTags(tags, appName))
      [] mode = "gitfail" -> Resolved(<<>>)
      [] OTHER -> Rejected

LocalModes == IF insideWorkTree THEN {"ok", "reject"} ELSE {"reject"}
RemoteModes == IF insideWorkTree THEN {"ok", "gitfail", "reject"} ELSE {"gitfail", "reject"}

CallGetLatestTagVersion ==
    /\ call = NoCall
    /\ \E appName \in AppNames, lm \in LocalModes, rm \in RemoteModes :
          call' = [op |-> "getLatestTagVersion", pc |-> "done",
                   args |-> [appName |-> appName, isGitRepo |-> isGitRepository,
                             local |-> lm, remote |-> rm],
                   out |-> getLatestTagVersion(appName, isGitRepository,
                              LocalExec(lm, appName, localTags),
                              RemoteExec(rm, appName, remoteTags))]
    /\ UNCHANGED <<hasGitDir, insideWorkTree, localTags, remoteTags, prev, runs>>

NextResolve == CallGetLatestTagVersion

SpecResolve == InitResolve /\ [][NextResolve]_vars

---------------------------------------------------------------------------
(* SpecPropose: the handler from getLatestTagVersion to the version that   *)
(* confirmVersion proposes                                                  *)

\* The number of tags the two repositories hold together
MaxProposeTags == 2

\* A repository and its origin with a few tags
InitPropose ==
    /\ hasGitDir = TRUE
    /\ insideWorkTree = TRUE
    /\ \E l \in SUBSET TagNameUniverse, r \in SUBSET TagNameUniverse :
          /\ Cardinality(l) + Cardinality(r) <= MaxProposeTags
          /\ localTags = InitialTags(l)
          /\ remoteTags = InitialTags(r)
    /\ call = NoCall
    /\ prev = NoSummary
    /\ runs = [r \in Runs |-> IdleRun]

\* confirmVersion(latestVersion, incrementType): the suggestedVersion it
\* puts into the input box, or the throw of incrementVersion
ProposeVersion ==
    /\ call.op = "getLatestTagVersion"
    /\ call.pc = "done"
    /\ call.out.kind = "return"
    /\ \E type \in IncrementTypes :
          call' = [op |-> "confirmVersion", pc |-> "done",
                   args |-> [appName |-> call.args.appName,
                             isGitRepo |-> call.args.isGitRepo,
                             local |-> call.args.local,
                             remote |-> call.args.remote,
                             currentVersion |-> call.out.value,
                             type |-> type],
                   out |-> incrementVersion(call.out.value, type)]
    /\ UNCHANGED <<hasGitDir, insideWorkTree, localTags, remoteTags, prev, runs>>

NextPropose ==
    \/ CallGetLatestTagVersion
    \/ ProposeVersion

SpecPropose == InitPropose /\ [][NextPropose]_vars

---------------------------------------------------------------------------
(* SpecValidate: isValidVersion applied to tag texts and namespaces        *)

\* The texts tag validation is applied to: the tag names of the model, tags
\* of namespaces that differ from a namespace of the model in one character,
\* a peeled ref, and the empty line of an empty listing
TagTexts ==
    TagNameUniverse \cup
    { TagName(<<"a", "x", "b">>, V100), TagName(<<"a", "a", "b">>, V100),
      TagName(<<"a", "b", "b">>, V100), TagName(<<"b">>, V100),
      TagName(NsParen, V100), TagName(NsAbX, V190), TagName(NsDot, V200),
      TagName(NsAb, V100) \o <<"^", "{", "}">>,
      TagName(NsAb, V100 \o <<".", "4">>), <<"x">> \o TagName(NsAb, V100), <<>> }

InitValidate == InitIncrement

CallIsValidVersion ==
    /\ call = NoCall
    /\ \E version \in TagTexts, appName \in AppNames :
          call' = [op |-> "isValidVersion", pc |-> "done",
                   args |-> [version |-> version, appName |-> appName],
                   out |-> isValidVersion(version, appName)]
    /\ UNCHANGED <<hasGitDir, insideWorkTree, localTags, remoteTags, prev, runs>>

NextValidate == CallIsValidVersion

SpecValidate == InitValidate /\ [][NextValidate]_vars

---------------------------------------------------------------------------
(* createTag, pushTag, createAndPushTag                                    *)

TagCreate == "git tag -a"
TagPush == "git push origin"

\* The tag command with --force: a tag of the name is replaced.
GitTagAnnotateForce(local, name, commitId, message, fault) ==
    IF \/ fault
       \/ ~insideWorkTree
       \/ commitId \notin Commits
       \/ \E i \in 1..Len(name) : name[i] = "("
    THEN [rejected |-> TRUE, local |-> local]
    ELSE [rejected |-> FALSE,
          local |-> {t \in local : t.name # name}
                    \cup {TagObject(name, commitId, message)}]

\* execAsync(`git tag -a ${tagName} ${commitId} -m "${message}"`): git
\* creates the annotated tag unless it is outside a work tree, the commit is
\* unknown or the name is taken; the shell refuses the unquoted '(' of a
\* name; fault is any other failure of the process.  A rejection leaves the
\* tags as they were.
GitTagAnnotate(local, name, commitId, message, fault) ==
    IF \/ fault
       \/ ~insideWorkTree
       \/ commitId \notin Commits
       \/ name \in TagNames(local)
       \/ \E i \in 1..Len(name) : name[i] = "("
    THEN [rejected |-> TRUE, local |-> local]
    ELSE [rejected |-> FALSE,
          local |-> local \cup {TagObject(name, commitId, message)}]

\* execAsync(`git push origin ${tagName}`): git sends the local tag object;
\* it fails outside a work tree, when there is no such local tag, when
\* origin holds another object under the name, or on a fault of the
\* process or the network.  Pushing what origin already has succeeds.
GitPush(local, remote, name, fault) ==
    IF \/ fault
       \/ ~insideWorkTree
       \/ name \notin TagNames(local)
       \/ \E t \in remote : t.name = name /\ t \notin local
    THEN [rejected |-> TRUE, remote |-> remote]
    ELSE [rejected |-> FALSE,
          remote |-> remote \cup {t \in local : t.name = name}]

\* The result of a mutating call: what it returned or that it threw,
\* whether showErrorMessage was called, the git commands it ran, and the
\* tags of the two repositories afterwards
Effect(kind, value, reported, cmds, local, remote) ==
    [kind |-> kind, value |-> value, reported |-> reported, cmds |-> cmds,
     local |-> local, remote |-> remote]

\* The try block of createTag
createTagTry(appName, version, commitId, message, local, remote, fault) ==
    IF ~isGitRepository THEN Effect("return", FALSE, TRUE, <<>>, local, remote)
    ELSE LET e == GitTagAnnotate(local, TagName(appName, version), commitId,
                                 message, fault)
         IN  IF e.rejected
             THEN Effect("throw", FALSE, FALSE, <<TagCreate>>, e.local, remote)
             ELSE Effect("return", TRUE, FALSE, <<TagCreate>>, e.local, remote)

\* createTag without its catch clause.
createTagNoCatch(appName, version, commitId, message, local, remote, fault) ==
    createTagTry(appName, version, commitId, message, local, remote, fault)

\* createTag: the try block, and the catch clause that returns false
createTag(appName, version, commitId, message, local, remote, fault) ==
    LET t == createTagTry(appName, version, commitId, message, local, remote, fault)
    IN  IF t.kind = "throw"
        THEN Effect("return", FALSE, t.reported, t.cmds, t.local, t.remote)
        ELSE t

PushSucceeded == [success |-> TRUE, message |-> "stdout"]
PushFailed == [success |-> FALSE, message |-> "error.message"]

\* A push step that takes the local tag back when the push fails.
pushTagRollback(appName, version, local, remote, fault) ==
    LET e == GitPush(local, remote, TagName(appName, version), fault)
    IN  Effect("return", IF e.rejected THEN PushFailed ELSE PushSucceeded,
               FALSE, <<TagPush>>,
               IF e.rejected
               THEN {t \in local : t.name # TagName(appName, version)}
               ELSE local,
               e.remote)

\* pushTag: no repository probe; a rejection of the command is caught and
\* returned as {success: false}
pushTag(appName, version, local, remote, fault) ==
    LET e == GitPush(local, remote, TagName(appName, version), fault)
    IN  Effect("return", IF e.rejected THEN PushFailed ELSE PushSucceeded,
               FALSE, <<TagPush>>, local, e.remote)

\* The push step taken whatever the create step returned.
createAndPushTagAlwaysPush(createSuccess) == "push"

\* createAndPushTag after `await createTag(...)`: return false when it
\* failed, go on to pushTag otherwise
createAndPushTag(createSuccess) == IF ~createSuccess THEN "done" ELSE "push"

\* The first half of the older createAndPushTag (part_000): the probe and
\* the tag command inside one try block; the catch clause returns false
createAndPushTagOldCreate(appName, version, commitId, message, local, remote, fault) ==
    IF ~isGitRepository THEN Effect("return", FALSE, TRUE, <<>>, local, remote)
    ELSE LET e == GitTagAnnotate(local, TagName(appName, version), commitId,
                                 message, fault)
         IN  Effect(IF e.rejected THEN "return" ELSE "continue", ~e.rejected,
                    FALSE, <<TagCreate>>, e.local, remote)

\* Its second half: the push command; the catch clause returns false
createAndPushTagOldPush(appName, version, local, remote, fault) ==
    LET e == GitPush(local, remote, TagName(appName, version), fault)
    IN  Effect("return", ~e.rejected, FALSE, <<TagPush>>, local, e.remote)

---------------------------------------------------------------------------
(* SpecApi: a programmatic caller of the mutating functions                *)

ApiAppNames == {NsAb}
ApiVersions == {V190, V200}
ApiCommits == {"c1", "unknown"}
ApiMessages == {"m1"}

\* The repository holds @ab/1.9.0 or nothing, origin the same or nothing
InitApi ==
    /\ hasGitDir \in BOOLEAN
    /\ insideWorkTree \in BOOLEAN
    /\ \E l \in SUBSET {TagName(NsAb, V190)} :
          /\ ~insideWorkTree => l = {}
          /\ localTags = InitialTags(l)
          /\ \E r \in SUBSET l : remoteTags = InitialTags(r)
    /\ call = NoCall
    /\ prev = NoSummary
    /\ runs = [r \in Runs |-> IdleRun]

\* A new call starts when none is in progress; a summary of the one that
\* returned is kept
CanCall == call.pc \in {"idle", "done"}
Summary ==
    IF call.op = "none" THEN NoSummary
    ELSE [op |-> call.op, name |-> TagName(call.args.appName, call.args.version),
          created |-> call.created, pushed |-> call.pushed]

\* What a call in progress or returned is recorded as.  pre holds the local
\* tags when it started, created and pushed what its steps returned.
ApiCall(op, pc, args, e, pre, created, pushed) ==
    [op |-> op, pc |-> pc, args |-> args,
     out |-> [kind |-> e.kind, value |-> e.value, reported |-> e.reported,
              cmds |-> e.cmds],
     pre |-> pre, created |-> created, pushed |-> pushed]

TagArgs(appName, version, commitId, message, fault) ==
    [appName |-> appName, version |-> version, commitId |-> commitId,
     message |-> message, isGitRepo |-> isGitRepository, fault |-> fault]

CallCreateTag ==
    /\ CanCall
    /\ \E a \in ApiAppNames, v \in ApiVersions, c \in ApiCommits, m \in ApiMessages,
          fault \in BOOLEAN :
          LET e == createTag(a, v, c, m, localTags, remoteTags, fault) IN
          /\ call' = ApiCall("createTag", "done", TagArgs(a, v, c, m, fault), e,
                             localTags, e.value = TRUE, FALSE)
          /\ localTags' = e.local
    /\ prev' = Summary
    /\ UNCHANGED <<hasGitDir, insideWorkTree, remoteTags, runs>>

CallPushTag ==
    /\ CanCall
    /\ \E a \in ApiAppNames, v \in ApiVersions, fault \in BOOLEAN :
          LET e == pushTag(a, v, localTags, remoteTags, fault) IN
          /\ call' = ApiCall("pushTag", "done", TagArgs(a, v, "none", "none", fault),
                             e, localTags, FALSE, e.value.success)
          /\ localTags' = e.local
          /\ remoteTags' = e.remote
    /\ prev' = Summary
    /\ UNCHANGED <<hasGitDir, insideWorkTree, runs>>

\* createAndPushTag up to the end of `await createTag(...)` and the test of
\* its result
CallCreateAndPushTag ==
    /\ CanCall
    /\ \E a \in ApiAppNames, v \in ApiVersions, c \in ApiCommits, m \in ApiMessages,
          fault \in BOOLEAN :
          LET e == createTag(a, v, c, m, localTags, remoteTags, fault) IN
          /\ call' = ApiCall("createAndPushTag", createAndPushTag(e.value),
                             TagArgs(a, v, c, m, fault), e, localTags,
                             e.value = TRUE, FALSE)
          /\ localTags' = e.local
    /\ prev' = Summary
    /\ UNCHANGED <<hasGitDir, insideWorkTree, remoteTags, runs>>

\* createAndPushTag from `await pushTag(...)` to its return
CreateAndPushTagPush ==
    /\ call.op = "createAndPushTag"
    /\ call.pc = "push"
    /\ \E fault \in BOOLEAN :
          LET e == pushTag(call.args.appName, call.args.version, localTags,
                           remoteTags, fault) IN
          /\ call' = [call EXCEPT !.pc = "done",
                                  !.out.value = e.value.success,
                                  !.out.cmds = call.out.cmds \o e.cmds,
                                  !.pushed = e.value.success]
          /\ localTags' = e.local
          /\ remoteTags' = e.remote
    /\ UNCHANGED <<hasGitDir, insideWorkTree, prev, runs>>

\* The older createAndPushTag up to the end of its tag command
CallCreateAndPushTagOld ==
    /\ CanCall
    /\ \E a \in ApiAppNames, v \in ApiVersions, c \in ApiCommits, m \in ApiMessages,
          fault \in BOOLEAN :
          LET e == createAndPushTagOldCreate(a, v, c, m, localTags, remoteTags, fault) IN
          /\ call' = ApiCall("createAndPushTagOld",
                             IF e.kind = "continue" THEN "push" ELSE "done",
                             TagArgs(a, v, c, m, fault),
                             [e EXCEPT !.kind = "return"], localTags,
                             e.kind = "continue", FALSE)
          /\ localTags' = e.local
    /\ prev' = Summary
    /\ UNCHANGED <<hasGitDir, insideWorkTree, remoteTags, runs>>

\* The older createAndPushTag from its push command to its return
CreateAndPushTagOldPush ==
    /\ call.op = "createAndPushTagOld"
    /\ call.pc = "push"
    /\ \E fault \in BOOLEAN :
          LET e == createAndPushTagOldPush(call.args.appName, call.args.version,
                                           localTags, remoteTags, fault) IN
          /\ call' = [call EXCEPT !.pc = "done",
                                  !.out.value = e.value,
                                  !.out.cmds = call.out.cmds \o e.cmds,
                                  !.pushed = e.value]
          /\ remoteTags' = e.remote
    /\ UNCHANGED <<hasGitDir, insideWorkTree, localTags, prev, runs>>

NextApi ==
    \/ CallCreateTag
    \/ CallPushTag
    \/ CallCreateAndPushTag
    \/ CreateAndPushTagPush
    \/ CallCreateAndPushTagOld
    \/ CreateAndPushTagOldPush

SpecApi == InitApi /\ [][NextApi]_vars

---------------------------------------------------------------------------
(* The prompts of uiUtils.ts and the command handler of extension.ts       *)

\* undefined, where the value is a name and where it is a text
Undefined == "undefined"
UndefinedText == <<"undefined">>

\* `if (!x) { return; }` after a prompt: the handler ends when the prompt
\* returned undefined, and goes on to next otherwise
afterPrompt(isUndefined, next) == IF isUndefined THEN "done" ELSE next

\* confirmPushTag: undefined when the pick is dismissed, otherwise whether
\* the label picked is '是'
confirmPushTag(selected) ==
    IF selected = Undefined THEN Undefined
    ELSE IF selected = "yes" THEN "true" ELSE "false"

\* A handler that takes a dismissed push confirmation for a "no".
afterConfirmPushNoCancel(shouldPush) == "create"

\* `if (shouldPush === undefined) { return; }`
afterConfirmPush(shouldPush) == IF shouldPush = Undefined THEN "done" ELSE "create"

\* validateInput of confirmVersion: input.match(/^\d+\.\d+\.\d+$/); the
\* input box returns only a text it accepts
AcceptsVersionInput(input) ==
    MatchAt(<<DigitPlus, Lit("."), DigitPlus, Lit("."), DigitPlus>>, 1, input, 1, TRUE) # 0

\* The applications scanMonorepoApps finds, and what the operator may type
WorkspaceApps == {NsAb, NsPlus}
TypedVersions == {V190, TwoParts}
TypedCommits == {"unknown"}
RecentCommits == Commits
TypedMessages == {"m1"}

WorkflowTagNames == {TagName(NsAb, V190), TagName(NsAb, V200)}

\* Spec: one run of the command in a workspace
Init ==
    /\ hasGitDir \in BOOLEAN
    /\ insideWorkTree \in BOOLEAN
    /\ \E l \in SUBSET {TagName(NsAb, V190)}, r \in SUBSET WorkflowTagNames :
          /\ ~insideWorkTree => l = {} /\ r = {}
          /\ localTags = InitialTags(l)
          /\ remoteTags = InitialTags(r)
    /\ call = NoCall
    /\ prev = NoSummary
    /\ runs = [r \in Runs |-> IF r = "r1" THEN IdleRun ELSE OffRun]

Finish(run, error) == [run EXCEPT !.pc = "done", !.error = error]

Answer(run, prompt, isUndefined, next) ==
    IF isUndefined
    THEN [run EXCEPT !.pc = afterPrompt(isUndefined, next), !.cancelledAt = prompt]
    ELSE [run EXCEPT !.pc = afterPrompt(isUndefined, next),
                     !.answered = run.answered \cup {prompt}]

\* The handler from its start to the application pick: no workspace folder
\* is an error message, a missing apps directory throws into the catch
\* clause, an empty list makes selectApp show an error and return undefined
\* without a prompt
StartRun(r) ==
    /\ runs[r].pc = "idle"
    /\ \E found \in {"noWorkspace", "noAppsDir", "noApps", "apps"} :
          LET run == [runs[r] EXCEPT !.atStart = [local |-> localTags,
                                                   remote |-> remoteTags]]
          IN  runs' = [runs EXCEPT ![r] =
                         IF found = "apps" THEN [run EXCEPT !.pc = "selectApp"]
                         ELSE Finish(run, found)]
    /\ UNCHANGED <<hasGitDir, insideWorkTree, localTags, remoteTags, call, prev>>

\* selectApp returns
SelectApp(r) ==
    /\ runs[r].pc = "selectApp"
    /\ \E answer \in WorkspaceApps \cup {UndefinedText} :
          runs' = [runs EXCEPT ![r] =
                     [Answer(runs[r], "selectApp", answer = UndefinedText, "listLocal")
                        EXCEPT !.app = IF answer = UndefinedText THEN <<>> ELSE answer]]
    /\ UNCHANGED <<hasGitDir, insideWorkTree, localTags, remoteTags, call, prev>>

\* getLatestTagVersion up to the end of the local enumeration
ResolveLocal(r) ==
    /\ runs[r].pc = "listLocal"
    /\ \E lm \in LocalModes :
          LET local == LocalExec(lm, runs[r].app, localTags) IN
          runs' = [runs EXCEPT ![r] =
                     IF ~isGitRepository \/ local.rejected
                     THEN [runs[r] EXCEPT
                             !.pc = "selectType",
                             !.latest = getLatestTagVersion(runs[r].app,
                                            isGitRepository, local, Rejected).value]
                     ELSE [runs[r] EXCEPT !.pc = "listRemote",
                                          !.localOut = local.stdout]]
    /\ UNCHANGED <<hasGitDir, insideWorkTree, localTags, remoteTags, call, prev>>

\* getLatestTagVersion from the remote enumeration to its return
ResolveRemote(r) ==
    /\ runs[r].pc = "listRemote"
    /\ \E rm \in RemoteModes :
          runs' = [runs EXCEPT ![r] =
                     [runs[r] EXCEPT
                        !.pc = "selectType",
                        !.localOut = <<>>,
                        !.latest = getLatestTagVersion(runs[r].app, TRUE,
                                       Resolved(runs[r].localOut),
                                       RemoteExec(rm, runs[r].app, remoteTags)).value]]
    /\ UNCHANGED <<hasGitDir, insideWorkTree, localTags, remoteTags, call, prev>>

\* selectVersionIncrementType returns
SelectType(r) ==
    /\ runs[r].pc = "selectType"
    /\ \E answer \in IncrementTypes \cup {Undefined} :
          runs' = [runs EXCEPT ![r] =
                     [Answer(runs[r], "selectType", answer = Undefined, "confirmVersion")
                        EXCEPT !.incType = answer]]
    /\ UNCHANGED <<hasGitDir, insideWorkTree, localTags, remoteTags, call, prev>>

\* confirmVersion: incrementVersion gives the suggestion (a throw goes to
\* the catch clause of the handler); the input box returns the suggestion,
\* a typed text it accepts, or undefined
ConfirmVersion(r) ==
    /\ runs[r].pc = "confirmVersion"
    /\ LET suggested == incrementVersion(runs[r].latest, runs[r].incType) IN
       IF suggested.kind = "throw"
       THEN runs' = [runs EXCEPT ![r] = Finish(runs[r], "thrown")]
       ELSE \E answer \in {v \in {suggested.value} \cup TypedVersions :
                              AcceptsVersionInput(v)} \cup {UndefinedText} :
               runs' = [runs EXCEPT ![r] =
                          [Answer(runs[r], "confirmVersion", answer = UndefinedText,
                                  "getCommit")
                             EXCEPT !.newVersion =
                                       IF answer = UndefinedText THEN <<>> ELSE answer]]
    /\ UNCHANGED <<hasGitDir, insideWorkTree, localTags, remoteTags, call, prev>>

\* getLatestCommitId: outside a repository, or when `git rev-parse HEAD`
\* fails, it throws into the catch clause of the handler
GetLatestCommitId(r) ==
    /\ runs[r].pc = "getCommit"
    /\ \E fault \in BOOLEAN :
          runs' = [runs EXCEPT ![r] =
                     IF ~isGitRepository \/ ~insideWorkTree \/ fault
                     THEN Finish(runs[r], "thrown")
                     ELSE [runs[r] EXCEPT !.pc = "selectCommit"]]
    /\ UNCHANGED <<hasGitDir, insideWorkTree, localTags, remoteTags, call, prev>>

\* selectCommitId: the pick returns a recent commit, the entry for a typed
\* commit id, or undefined
SelectCommit(r) ==
    /\ runs[r].pc = "selectCommit"
    /\ \E answer \in RecentCommits \cup {"custom", Undefined} :
          runs' = [runs EXCEPT ![r] =
                     IF answer = "custom"
                     THEN [runs[r] EXCEPT !.pc = "inputCommit"]
                     ELSE [Answer(runs[r], "selectCommit", answer = Undefined, "inputMessage")
                             EXCEPT !.commitId = answer]]
    /\ UNCHANGED <<hasGitDir, insideWorkTree, localTags, remoteTags, call, prev>>

\* selectCommitId: the input box for a typed commit id returns
InputCommit(r) ==
    /\ runs[r].pc = "inputCommit"
    /\ \E answer \in TypedCommits \cup {Undefined} :
          runs' = [runs EXCEPT ![r] =
                     [Answer(runs[r], "selectCommit", answer = Undefined, "inputMessage")
                        EXCEPT !.commitId = answer]]
    /\ UNCHANGED <<hasGitDir, insideWorkTree, localTags, remoteTags, call, prev>>

\* inputCommitMessage returns; then the autoPush setting is read, and
\* shouldPush starts as its value
InputMessage(r) ==
    /\ runs[r].pc = "inputMessage"
    /\ \E answer \in TypedMessages \cup {Undefined}, autoPush \in BOOLEAN :
          runs' = [runs EXCEPT ![r] =
                     IF answer = Undefined
                     THEN Answer(runs[r], "inputMessage", TRUE, "done")
                     ELSE [Answer(runs[r], "inputMessage", FALSE,
                                  IF autoPush THEN "create" ELSE "confirmPush")
                             EXCEPT !.message = answer,
                                    !.autoPush = autoPush,
                                    !.shouldPush = IF autoPush THEN "true" ELSE "false"]]
    /\ UNCHANGED <<hasGitDir, insideWorkTree, localTags, remoteTags, call, prev>>

\* confirmPushTag returns (asked only when autoPush is off)
ConfirmPush(r) ==
    /\ runs[r].pc = "confirmPush"
    /\ \E selected \in {"yes", "no", Undefined} :
          LET shouldPush == confirmPushTag(selected) IN
          runs' = [runs EXCEPT ![r] =
                     [runs[r] EXCEPT
                        !.pc = afterConfirmPush(shouldPush),
                        !.shouldPush = shouldPush,
                        !.answered = IF selected = Undefined THEN @
                                     ELSE @ \cup {"confirmPush"},
                        !.cancelledAt = IF selected = Undefined
                                        THEN "confirmPush" ELSE @]]
    /\ UNCHANGED <<hasGitDir, insideWorkTree, localTags, remoteTags, call, prev>>

\* The push step taken whenever the tag was created.
afterCreateTagAlwaysPush(createSuccess, shouldPush) ==
    IF ~createSuccess THEN "done" ELSE "push"

\* After `await createTag(...)`: return when it failed; pushTag only
\* `if (shouldPush)`
afterCreateTag(createSuccess, shouldPush) ==
    IF ~createSuccess THEN "done"
    ELSE IF shouldPush THEN "push" ELSE "done"

\* `await createTag(...)` and the test of its result
CreateStep(r) ==
    /\ runs[r].pc = "create"
    /\ \E fault \in BOOLEAN :
          LET e == createTag(runs[r].app, runs[r].newVersion, runs[r].commitId,
                             runs[r].message, localTags, remoteTags, fault) IN
          /\ runs' = [runs EXCEPT ![r] =
                        [runs[r] EXCEPT
                           !.pc = afterCreateTag(e.value, runs[r].shouldPush = "true"),
                           !.cmds = Append(@, "createTag"),
                           !.created = IF e.value = TRUE THEN "true" ELSE "false",
                           !.error = IF e.value = TRUE THEN @ ELSE "createFailed"]]
          /\ localTags' = e.local
    /\ UNCHANGED <<hasGitDir, insideWorkTree, remoteTags, call, prev>>

\* `await pushTag(...)` and the message about its result
PushStep(r) ==
    /\ runs[r].pc = "push"
    /\ \E fault \in BOOLEAN :
          LET e == pushTag(runs[r].app, runs[r].newVersion, localTags,
                           remoteTags, fault) IN
          /\ runs' = [runs EXCEPT ![r] =
                        [runs[r] EXCEPT
                           !.pc = "done",
                           !.cmds = Append(@, "pushTag"),
                           !.pushed = IF e.value.success THEN "true" ELSE "false",
                           !.error = IF e.value.success THEN @ ELSE "pushFailed"]]
          /\ localTags' = e.local
          /\ remoteTags' = e.remote
    /\ UNCHANGED <<hasGitDir, insideWorkTree, call, prev>>

Next ==
    \E r \in Runs :
        \/ StartRun(r)
        \/ SelectApp(r)
        \/ ResolveLocal(r)
        \/ ResolveRemote(r)
        \/ SelectType(r)
        \/ ConfirmVersion(r)
        \/ GetLatestCommitId(r)
        \/ SelectCommit(r)
        \/ InputCommit(r)
        \/ InputMessage(r)
        \/ ConfirmPush(r)
        \/ CreateStep(r)
        \/ PushStep(r)

Spec == Init /\ [][Next]_vars

\* SpecRace: the command started twice in one repository that holds
\* @ab/1.9.0, pushed to origin; the handlers interleave at every await
InitRace ==
    /\ hasGitDir = TRUE
    /\ insideWorkTree = TRUE
    /\ localTags = InitialTags({TagName(NsAb, V190)})
    /\ remoteTags = InitialTags({TagName(NsAb, V190)})
    /\ call = NoCall
    /\ prev = NoSummary
    /\ runs = [r \in Runs |-> IdleRun]

SpecRace == InitRace /\ [][Next]_vars

---------------------------------------------------------------------------
(* What the properties are stated with: version triples and tag names as   *)
(* the specification defines them, independently of the regular            *)
(* expressions of the code                                                 *)

IsDigitText(s) == s # <<>> /\ AllIn(s, Digits)

\* Exactly <digits>.<digits>.<digits>
IsTripleText(v) ==
    LET p == Split(v, ".") IN Len(p) = 3 /\ \A i \in 1..3 : IsDigitText(p[i])

\* The (major, minor, patch) a triple text denotes
TripleOf(v) ==
    LET p == Split(v, ".") IN [i \in 1..3 |-> RadixValue(p[i], 10, 0)]

TripleLess(a, b) ==
    \/ a[1] < b[1]
    \/ a[1] = b[1] /\ a[2] < b[2]
    \/ a[1] = b[1] /\ a[2] = b[2] /\ a[3] < b[3]

VersionPart(tag, appName) == SubSeq(tag, Len(appName) + 3, Len(tag))

\* tag is exactly '@' + appName + '/' + a version triple
IsTagOf(tag, appName) ==
    /\ HasPrefix(tag, TagName(appName, <<>>))
    /\ IsTripleText(VersionPart(tag, appName))

\* value is the greatest version among the tags of names that are tags of
\* appName, 0.0.0 when there is none
IsMaxVersionOf(value, names, appName) ==
    LET valid == {t \in names : IsTagOf(t, appName)} IN
    IF valid = {} THEN value = ZeroVersion
    ELSE /\ IsTripleText(value)
         /\ \E t \in valid : TripleOf(VersionPart(t, appName)) = TripleOf(value)
         /\ \A t \in valid :
               ~TripleLess(TripleOf(value), TripleOf(VersionPart(t, appName)))

IsProperPrefix(p, s) == Len(p) < Len(s) /\ HasPrefix(s, p)

Resolving == call.op = "getLatestTagVersion"

---------------------------------------------------------------------------
(* Properties of getLatestTagVersion, under SpecResolve                    *)

\* C2: whenever the local enumeration succeeds and the remote enumeration
\* fails, getLatestTagVersion returns the greatest version among the local
\* tags the validation accepts for the namespace (0.0.0 if there is none).
\* The code does so when git ls-remote fails inside the pipeline, and
\* returns 0.0.0 whatever the local tags are when execAsync rejects.
C2_RemoteFailureKeepsLocal ==
    (/\ Resolving
     /\ call.args.isGitRepo
     /\ call.args.local = "ok"
     /\ call.args.remote \in {"gitfail", "reject"})
    => LET n == call.args.appName
           accepted == {t \in TagNames(localTags) :
                           /\ HasPrefix(t, TagName(n, <<>>))
                           /\ isValidVersion(t, n) = "true"}
       IN  /\ call.out.kind = "return"
           /\ IF accepted = {} THEN call.out.value = ZeroVersion
              ELSE /\ IsTripleText(call.out.value)
                   /\ \E t \in accepted :
                         TripleOf(VersionPart(t, n)) = TripleOf(call.out.value)
                   /\ \A t \in accepted :
                         ~TripleLess(TripleOf(call.out.value),
                                     TripleOf(VersionPart(t, n)))

\* C5: when both enumerations succeed, for every namespace the result is the
\* maximum, by (major, minor, patch) compared as integers, of the versions
\* of the tags of the form @<namespace>/<digits>.<digits>.<digits> in the
\* union of the local and the remote tags, and 0.0.0 when there is none.
C5_MaxOfValidTags ==
    (/\ Resolving
     /\ call.args.isGitRepo
     /\ call.args.local = "ok"
     /\ call.args.remote = "ok")
    => /\ call.out.kind = "return"
       /\ IsMaxVersionOf(call.out.value,
                         TagNames(localTags) \cup TagNames(remoteTags),
                         call.args.appName)

\* C7: for a namespace N and every namespace N' that N is a proper prefix
\* of, the result for N is the result for N in the repository without the
\* tags of N', local and remote.
NamespacesOfTags == AppNames \cup {NsAnyX}

Without(tags, appName) ==
    {t \in tags : ~HasPrefix(t.name, TagName(appName, <<>>))}

C7_PrefixNamespacesIsolated ==
    Resolving =>
        \A other \in NamespacesOfTags :
            IsProperPrefix(call.args.appName, other) =>
                call.out = getLatestTagVersion(call.args.appName, call.args.isGitRepo,
                              LocalExec(call.args.local, call.args.appName,
                                        Without(localTags, other)),
                              RemoteExec(call.args.remote, call.args.appName,
                                         Without(remoteTags, other)))

\* C7 witness: 'ab' resolved to 1.9.0 while @ab-x/2.0.0 exists locally and
\* remotely
C7_Witness ==
    /\ Resolving
    /\ call.args.appName = NsAb
    /\ call.args.local = "ok" /\ call.args.remote = "ok"
    /\ TagName(NsAbX, V200) \in TagNames(localTags) \cap TagNames(remoteTags)
    /\ TagName(NsAb, V190) \in TagNames(localTags)
    /\ call.out.value = V190

\* C8: getLatestTagVersion always returns; outside a repository it reports
\* the condition and returns 0.0.0 without running a tag enumeration; a
\* fault of an enumeration or of the parsing gives 0.0.0.
C8_ResolveNeverThrows ==
    Resolving =>
        /\ call.out.kind = "return"
        /\ ~call.args.isGitRepo =>
              /\ call.out.value = ZeroVersion
              /\ call.out.reported
              /\ call.out.cmds = <<>>
        /\ (/\ call.args.isGitRepo
            /\ \/ call.args.local = "reject"
               \/ call.args.remote = "reject"
               \/ \E i \in 1..Len(call.args.appName) : call.args.appName[i] = "(")
           => call.out.value = ZeroVersion

\* C8 witness: the remote enumeration rejected although a valid local tag
\* exists, and the call returned 0.0.0
C8_Witness ==
    /\ Resolving
    /\ call.args.isGitRepo
    /\ call.args.appName = NsAb
    /\ call.args.local = "ok" /\ call.args.remote = "reject"
    /\ TagName(NsAb, V190) \in TagNames(localTags)
    /\ call.out.kind = "return" /\ call.out.value = ZeroVersion

---------------------------------------------------------------------------
(* Properties of isValidVersion, under SpecValidate                        *)

\* C6: a tag text is accepted for a namespace if and only if it is exactly
\* '@' + namespace + '/' followed by a version triple, whatever characters
\* the namespace contains.
C6_LiteralNamespaceMatch ==
    call.op = "isValidVersion" =>
        (call.out = "true" <=> IsTagOf(call.args.version, call.args.appName))

---------------------------------------------------------------------------
(* Properties of incrementVersion, under SpecIncrement                     *)

\* C10: for every valid triple (M, m, p), incrementVersion returns a valid
\* triple text: (M+1, 0, 0) for major, (M, m+1, 0) for minor, (M, m, p+1)
\* for patch.
C10_IncrementVersion ==
    (/\ call.op = "incrementVersion"
     /\ IsTripleText(call.args.version)
     /\ call.args.type \in IncrementTypes)
    => LET t == TripleOf(call.args.version) IN
       /\ call.out.kind = "return"
       /\ IsTripleText(call.out.value)
       /\ TripleOf(call.out.value) =
            CASE call.args.type = "major" -> <<t[1] + 1, 0, 0>>
              [] call.args.type = "minor" -> <<t[1], t[2] + 1, 0>>
              [] call.args.type = "patch" -> <<t[1], t[2], t[3] + 1>>

\* C10 witness: 1.9.3 incremented by minor gave 1.10.0
C10_Witness ==
    /\ call.op = "incrementVersion"
    /\ call.args.version = Dotted(<<"1">>, <<"9">>, <<"3">>)
    /\ call.args.type = "minor"
    /\ call.out = Returned(V1100)

\* C11: incrementVersion called with a text that is not a valid version
\* triple (wrong number of components, or a non-numeric, empty or signed
\* component) throws and never returns a version string.  The code throws
\* only when the text has not three components.
C11_InvalidInputSignalled ==
    (/\ call.op = "incrementVersion"
     /\ ~IsTripleText(call.args.version))
    => call.out.kind = "throw"

---------------------------------------------------------------------------
(* Properties of createTag, pushTag and createAndPushTag, under SpecApi    *)

Combined == call.op \in {"createAndPushTag", "createAndPushTagOld"}

CallTagName == TagName(call.args.appName, call.args.version)

CallTagObject == TagObject(CallTagName, call.args.commitId, call.args.message)

\* The tag of the call was created by it: it was not there when the call
\* started and is there now, at the commit and with the message given
CallCreatedTag ==
    /\ CallTagName \notin TagNames(call.pre)
    /\ CallTagObject \in localTags

InSeq(x, seq) == \E i \in 1..Len(seq) : seq[i] = x

\* C1: createAndPushTag (both versions) runs the tag creation first and the
\* push only after the creation succeeded: when the creation failed no push
\* is attempted and the result is false; the result is true only when the
\* tag was created and pushed.
C1_PushOnlyAfterCreate ==
    Combined =>
        /\ InSeq(TagPush, call.out.cmds) =>
              /\ call.out.cmds = <<TagCreate, TagPush>>
              /\ CallCreatedTag
        /\ ~CallCreatedTag =>
              /\ call.pc = "done"
              /\ call.out.kind = "return" /\ call.out.value = FALSE
              /\ ~InSeq(TagPush, call.out.cmds)
        /\ (call.pc = "done" /\ call.out.value = TRUE) =>
              /\ CallCreatedTag
              /\ CallTagObject \in remoteTags

\* C1 witness: createAndPushTag returned false for a tag name that already
\* existed, after the tag command and without a push
C1_Witness ==
    /\ call.op = "createAndPushTag"
    /\ call.pc = "done"
    /\ call.args.isGitRepo /\ ~call.args.fault /\ call.args.commitId \in Commits
    /\ CallTagName \in TagNames(call.pre)
    /\ call.out.cmds = <<TagCreate>>
    /\ call.out.value = FALSE

\* C4: when the create step succeeds and the push step fails,
\* createAndPushTag returns false and the tag still exists locally, also
\* after the next call; and pushTag alone, for a tag that exists locally,
\* succeeds whenever the push command does, without a tag creation.
C4_CreatedTagSurvivesPushFailure ==
    /\ (Combined /\ call.pc = "done" /\ call.created /\ ~call.pushed) =>
          /\ call.out.value = FALSE
          /\ CallTagObject \in localTags
    /\ prev.created => prev.name \in TagNames(localTags)
    /\ call.op = "pushTag" =>
          /\ call.out.cmds = <<TagPush>>
          /\ localTags = call.pre
          /\ (/\ CallTagName \in TagNames(localTags)
              /\ insideWorkTree
              /\ ~call.args.fault
              /\ \A t \in remoteTags : t.name = CallTagName => t \in localTags)
             => /\ call.out.value.success
                /\ CallTagName \in TagNames(remoteTags)

\* C4 witness: createAndPushTag created the tag and failed to push it, and
\* the next call, pushTag for the same tag, pushed it
C4_Witness ==
    /\ prev.op = "createAndPushTag" /\ prev.created /\ ~prev.pushed
    /\ call.op = "pushTag"
    /\ CallTagName = prev.name
    /\ call.out.value.success
    /\ CallTagName \in TagNames(remoteTags)

\* C9: createTag always returns a boolean; outside a repository it returns
\* false without running the tag command; it returns false when the commit
\* is unknown, the name is taken or the process fails, leaving the tags as
\* they were; it returns true exactly when it created the annotated tag at
\* the given commit.
C9_CreateTagReturnsBoolean ==
    call.op = "createTag" =>
        /\ call.out.kind = "return"
        /\ call.out.value \in BOOLEAN
        /\ ~call.args.isGitRepo =>
              /\ call.out.value = FALSE
              /\ call.out.cmds = <<>>
        /\ (\/ call.args.commitId \notin Commits
            \/ CallTagName \in TagNames(call.pre)
            \/ call.args.fault)
           => call.out.value = FALSE
        /\ call.out.value = TRUE <=> CallCreatedTag
        /\ call.out.value = FALSE => localTags = call.pre

\* C9 witness: createTag ran the tag command for an unknown commit and
\* returned false
C9_Witness ==
    /\ call.op = "createTag"
    /\ call.args.isGitRepo /\ insideWorkTree /\ ~call.args.fault
    /\ call.args.commitId \notin Commits
    /\ CallTagName \notin TagNames(call.pre)
    /\ call.out.cmds = <<TagCreate>>
    /\ call.out.kind = "return" /\ call.out.value = FALSE

---------------------------------------------------------------------------
(* Properties of the command handler, under Spec                           *)

PromptsBeforePush ==
    {"selectApp", "selectType", "confirmVersion", "selectCommit", "inputMessage"}

\* C3: in a run in which a prompt returned undefined, createTag and pushTag
\* are never called and the tags are what they were when the run started;
\* createTag is called only after every prompt returned a value (the push
\* confirmation is not asked when autoPush is set).
C3_CancelHasNoSideEffect ==
    \A r \in Runs :
        /\ runs[r].cancelledAt # "none" =>
              /\ runs[r].pc = "done"
              /\ runs[r].cmds = <<>>
              /\ localTags = runs[r].atStart.local
              /\ remoteTags = runs[r].atStart.remote
        /\ runs[r].cmds # <<>> =>
              /\ runs[r].cancelledAt = "none"
              /\ PromptsBeforePush \subseteq runs[r].answered
              /\ runs[r].autoPush \/ "confirmPush" \in runs[r].answered

\* C3 witness: a run answered every prompt but the push confirmation,
\* which was dismissed, and ended without a call
C3_Witness ==
    \E r \in Runs :
        /\ runs[r].pc = "done"
        /\ runs[r].cancelledAt = "confirmPush"
        /\ PromptsBeforePush \subseteq runs[r].answered
        /\ runs[r].cmds = <<>>

\* The tag name a run asked createTag for
RunTagName(r) == TagName(runs[r].app, runs[r].newVersion)

\* C12: in every run pushTag is called at most once, only after createTag
\* returned true in the same run, and only when pushing was chosen (autoPush
\* is set, or the push confirmation was answered yes); with autoPush set the
\* push confirmation is never shown; when it is answered no, createTag is
\* called, the tag it created exists locally, and pushTag is never called.
C12_PushAtMostOnceWhenChosen ==
    \A r \in Runs :
        /\ runs[r].cmds \in {<<>>, <<"createTag">>, <<"createTag", "pushTag">>}
        /\ InSeq("pushTag", runs[r].cmds) =>
              /\ runs[r].created = "true"
              /\ runs[r].shouldPush = "true"
              /\ runs[r].autoPush \/ "confirmPush" \in runs[r].answered
        /\ runs[r].autoPush =>
              /\ runs[r].pc # "confirmPush"
              /\ "confirmPush" \notin runs[r].answered
              /\ runs[r].cancelledAt # "confirmPush"
        /\ (/\ "confirmPush" \in runs[r].answered
            /\ runs[r].shouldPush = "false") =>
              /\ runs[r].pc \in {"create", "done"}
              /\ ~InSeq("pushTag", runs[r].cmds)
              /\ runs[r].pc = "done" =>
                    /\ runs[r].cmds = <<"createTag">>
                    /\ runs[r].created = "true" =>
                          RunTagName(r) \in TagNames(localTags)

\* C12 witness: the push confirmation was answered no, createTag created
\* the tag and the run ended without pushTag
C12_Witness ==
    \E r \in Runs :
        /\ runs[r].pc = "done"
        /\ ~runs[r].autoPush
        /\ "confirmPush" \in runs[r].answered
        /\ runs[r].shouldPush = "false"
        /\ runs[r].created = "true"
        /\ runs[r].cmds = <<"createTag">>
        /\ RunTagName(r) \in TagNames(localTags)
        /\ RunTagName(r) \notin TagNames(remoteTags)

---------------------------------------------------------------------------
(* Properties of two runs of the command, under SpecRace                   *)

\* The run called createTag
CalledCreateTag(r) == runs[r].cmds # <<>>

---------------------------------------------------------------------------
(* Properties of the proposed version, under SpecPropose                   *)

\* C14: when both enumerations succeeded, the version confirmVersion
\* proposes is a version triple greater, by (major, minor, patch), than the
\* version of every tag of the form @<namespace>/<digits>.<digits>.<digits>
\* in the repository or at origin, so the proposed tag name is the name of
\* none of the tags.
C14_ProposedVersionGreater ==
    (/\ call.op = "confirmVersion"
     /\ call.args.local = "ok"
     /\ call.args.remote = "ok")
    => LET n == call.args.appName
           names == TagNames(localTags) \cup TagNames(remoteTags)
       IN  /\ call.out.kind = "return"
           /\ IsTripleText(call.out.value)
           /\ \A t \in names :
                 IsTagOf(t, n) =>
                    TripleLess(TripleOf(VersionPart(t, n)), TripleOf(call.out.value))
           /\ TagName(n, call.out.value) \notin names

=============================================================================
